---------------------------- MODULE Spec2Model ----------------------------
(***************************************************************************)
(* Nested cross-validated decoding: decode_cv                              *)
(* (braindelphi/decoding/functions/decoder.py) and regress_target          *)
(* (decoding/decoding_utils.py).                                           *)
(*                                                                         *)
(* Trials are numbered 0..N-1 as in numpy; index lists are sequences of    *)
(* trial numbers.  Floating point values are modelled by integers, every   *)
(* quotient rounded down.  The estimator, the metrics and the splitters    *)
(* come from scikit-learn; they are modelled by what the calls in the      *)
(* source rely on (see the comment of each definition).                    *)
(*                                                                         *)
(* Further specifications of the module: TaskSpec, the sessions dispatched *)
(* by decoding/decode_prior.py; WeightSpec, sample weighting on its own;   *)
(* MaskSpec and SettingsSpec, compute_mask and check_settings of           *)
(* prior_localization/functions/utils.py.                                  *)
(***************************************************************************)
EXTENDS Integers, Sequences, FiniteSets, TLC

(***************************************************************************)
(* Bounds of the model.                                                    *)
(***************************************************************************)
MaxTrials == 5
MaxFolds == 3
MaxBins == 2
MaxSeed == 1
NumData == 2
RngMod == 4

None == "None"

(***************************************************************************)
(* Sequence and set helpers (numpy array operations used by the source).   *)
(***************************************************************************)
RECURSIVE SeqSum(_)
SeqSum(s) == IF s = <<>> THEN 0 ELSE Head(s) + SeqSum(Tail(s))

RECURSIVE Concat(_)
\* np.concatenate / np.vstack of a list of per-trial blocks
Concat(ss) == IF ss = <<>> THEN <<>> ELSE Head(ss) \o Concat(Tail(ss))

Range(s) == {s[i] : i \in DOMAIN s}

SetMin(S) == CHOOSE x \in S : \A y \in S : x <= y

RECURSIVE SortedSeq(_)
\* the elements of a set of integers in increasing order
SortedSeq(S) == IF S = {} THEN <<>>
                ELSE <<SetMin(S)>> \o SortedSeq(S \ {SetMin(S)})

\* np.arange(n)
Arange(n) == [i \in 1..n |-> i - 1]

\* x.mean(axis=0), rounded down; 0 for an empty array
Mean(s) == IF s = <<>> THEN 0 ELSE SeqSum(s) \div Len(s)

(***************************************************************************)
(* The process-wide numpy random state.                                    *)
(***************************************************************************)
\* np.random.seed(s)
SeedState(s) == s % RngMod

\* the state after one draw of a permutation
Advance(st) == (st + 1) % RngMod

RECURSIVE Lehmer(_, _)
\* the permutation of pool selected by code (factorial number system)
Lehmer(code, pool) ==
    IF pool = <<>> THEN <<>>
    ELSE LET k == (code % Len(pool)) + 1
             rest == [j \in 1..(Len(pool) - 1) |->
                         IF j < k THEN pool[j] ELSE pool[j + 1]]
         IN  <<pool[k]>> \o Lehmer(code \div Len(pool), rest)

\* rng.shuffle(np.arange(n)) / rng.permutation(n) in random state st
Permutation(st, n) == Lehmer(st + 1, Arange(n))

(***************************************************************************)
(* sklearn.model_selection.KFold and train_test_split, as the source uses  *)
(* them: KFold(n_splits, shuffle).split(indices) with no random_state, so  *)
(* a shuffle draws from the process-wide state st.                         *)
(***************************************************************************)
\* variant: every fold of size n // k, the n % k remaining samples in no fold
FoldSizeEven(n, k, j) == n \div k

\* size of fold j (1-based): n // k, the first n % k folds one larger
FoldSize(n, k, j) == (n \div k) + (IF j <= n % k THEN 1 ELSE 0)

RECURSIVE FoldStart(_, _, _)
\* number of samples in the folds before fold j
FoldStart(n, k, j) == IF j = 1 THEN 0
                      ELSE FoldStart(n, k, j - 1) + FoldSize(n, k, j - 1)

\* the j-th (train, test) pair of KFold(k, shuffle).split over n samples
KFoldPair(n, k, shuffle, st, j) ==
    LET indices == IF shuffle THEN Permutation(st, n) ELSE Arange(n)
        start == FoldStart(n, k, j)
        test == {indices[t] : t \in (start + 1)..(start + FoldSize(n, k, j))}
    IN  [train |-> SortedSeq((0..(n - 1)) \ test), test |-> SortedSeq(test)]

\* all pairs of KFold(k, shuffle).split over n samples, in fold order
KFoldSplit(n, k, shuffle, st) == [j \in 1..k |-> KFoldPair(n, k, shuffle, st, j)]

\* ceil(n * p) for the proportion p = <<num, den>>
CeilProp(n, p) == ((n * p[1]) + p[2] - 1) \div p[2]

\* variant: the leading indices held out when not shuffling
TrainTestSplitLeading(n, p, shuffle, st) ==
    LET n_test == CeilProp(n, p)
        perm == IF shuffle THEN Permutation(st, n) ELSE Arange(n)
    IN  [train |-> SubSeq(perm, n_test + 1, n), test |-> SubSeq(perm, 1, n_test)]

\* train_test_split(np.arange(n), test_size=p, shuffle=shuffle)
TrainTestSplit(n, p, shuffle, st) ==
    LET n_test == CeilProp(n, p)
        n_train == n - n_test
        perm == IF shuffle THEN Permutation(st, n) ELSE Arange(n)
    IN  IF shuffle
        THEN [train |-> SubSeq(perm, n_test + 1, n), test |-> SubSeq(perm, 1, n_test)]
        ELSE [train |-> SubSeq(perm, 1, n_train), test |-> SubSeq(perm, n_train + 1, n)]

(***************************************************************************)
(* Metrics (sklearn.metrics), in tenths, quotients rounded down.           *)
(***************************************************************************)
Sq(x) == x * x

\* r2_score(y_true, y_pred) = 1 - SS_res / SS_tot; a constant y_true scores
\* 1 when predicted exactly and 0 otherwise
r2_score(y_true, y_pred) ==
    LET n == Len(y_true)
        d == n * SeqSum([i \in 1..n |-> Sq(y_true[i])]) - Sq(SeqSum(y_true))
        res == SeqSum([i \in 1..n |-> Sq(y_true[i] - y_pred[i])])
    IN  IF d = 0 THEN (IF res = 0 THEN 10 ELSE 0)
        ELSE (10 * (d - n * res)) \div d

\* balanced_accuracy_score(y_true, y_pred): mean recall over the classes of y_true
balanced_accuracy_score(y_true, y_pred) ==
    LET n == Len(y_true)
        classes == SortedSeq(Range(y_true))
        recall(c) ==
            (10 * Cardinality({i \in 1..n : y_true[i] = c /\ y_pred[i] = c}))
                \div Cardinality({i \in 1..n : y_true[i] = c})
    IN  IF n = 0 THEN 0
        ELSE SeqSum([j \in 1..Len(classes) |-> recall(classes[j])]) \div Len(classes)

\* scoring_f(y_true, y_pred) for the metric named f
Score(f, y_true, y_pred) ==
    IF f = "balanced_accuracy_score" THEN balanced_accuracy_score(y_true, y_pred)
    ELSE r2_score(y_true, y_pred)

(***************************************************************************)
(* Sample weights.                                                         *)
(***************************************************************************)
ClassCount(vec, c) == Cardinality({i \in DOMAIN vec : vec[i] = c})

RECURSIVE SeqProd(_)
SeqProd(s) == IF s = <<>> THEN 1 ELSE Head(s) * SeqProd(Tail(s))

\* weights proportional to the inverse frequency of each sample's class,
\* scaled by the product of the class counts so that they are integers
InverseFrequency(vec) ==
    LET classes == SortedSeq(Range(vec))
        scale == SeqProd([j \in 1..Len(classes) |-> ClassCount(vec, classes[j])])
    IN  [i \in DOMAIN vec |-> scale \div ClassCount(vec, vec[i])]

\* variant: weights proportional to the frequency of each sample's class
ClassFrequency(y) == [i \in DOMAIN y |-> ClassCount(y, y[i])]

\* compute_sample_weight("balanced", y=y)
compute_sample_weight(y) == InverseFrequency(y)

\* balanced_weighting(vec, continuous=False, ...), discrete branch
balanced_weighting(vec) == InverseFrequency(vec)

(***************************************************************************)
(* The estimator: a linear model of one unit with an intercept and an L2   *)
(* penalty alpha, fit in closed form on weighted rows.  A classifier       *)
(* predicts the class of classes_ nearest to the linear prediction.        *)
(***************************************************************************)
Abs(x) == IF x < 0 THEN -x ELSE x

\* estimator(**{**estimator_kwargs, key: alpha}).fit(X, y, sample_weight=w)
Fit(est, alpha, X, y, w) ==
    LET n == Len(X)
        wt == IF w = <<>> THEN [i \in 1..n |-> 1] ELSE w
        W == SeqSum(wt)
        xbar == IF W = 0 THEN 0 ELSE SeqSum([i \in 1..n |-> wt[i] * X[i]]) \div W
        ybar == IF W = 0 THEN 0 ELSE SeqSum([i \in 1..n |-> wt[i] * y[i]]) \div W
        num == SeqSum([i \in 1..n |-> wt[i] * (X[i] - xbar) * (y[i] - ybar)])
        den == SeqSum([i \in 1..n |-> wt[i] * Sq(X[i] - xbar)]) + alpha
        coef == IF den = 0 THEN 0 ELSE num \div den
    IN  [est |-> est, alpha |-> alpha, coef_ |-> coef,
         intercept_ |-> ybar - coef * xbar, fit_intercept |-> TRUE,
         classes_ |-> SortedSeq(Range(y))]

\* model.predict(X) for one row
PredictRow(model, x) ==
    LET lin == model.coef_ * x + model.intercept_
    IN  IF model.est = "LogisticRegression"
        THEN LET cs == Range(model.classes_)
                 best == {c \in cs : \A c2 \in cs : Abs(c - lin) <= Abs(c2 - lin)}
             IN  SetMin(best)
        ELSE lin

\* model.predict(X)
Predict(model, X) == [i \in 1..Len(X) |-> PredictRow(model, X[i])]

\* model.predict_proba(X)[:, 0] for one row, in tenths: the probability of
\* the first class of classes_, falling from 10 at that class to 0 at the last
PredictProbaRow(model, x) ==
    LET lin == model.coef_ * x + model.intercept_
        cs == model.classes_
        c0 == cs[1]
        c1 == cs[Len(cs)]
        p == (10 * (c1 - lin)) \div (c1 - c0)
    IN  IF Len(cs) < 2 THEN 10
        ELSE IF p < 0 THEN 0 ELSE IF p > 10 THEN 10 ELSE p

\* model.predict_proba(X)[:, 0]
PredictProba(model, X) == [i \in 1..Len(X) |-> PredictProbaRow(model, X[i])]

\* array - scalar, array + scalar
Shift(X, c) == [i \in 1..Len(X) |-> X[i] + c]

(***************************************************************************)
(* State.                                                                  *)
(***************************************************************************)
VARIABLES
    args,                \* the arguments of the call (fn names the function called)
    rng,                 \* the process-wide numpy random state
    call,                \* 1 or 2: the same call is made twice in a row
    first,               \* what the first call produced, kept for the second
    pc,                  \* position in the call
    error,               \* the exception the call raised, or None
    scoring_f,           \* decoder.py:135
    outer_kfold,         \* the outer split generator
    fold,                \* number of outer folds begun
    train_idxs_outer, test_idxs_outer,
    inner_kfold,         \* the inner split generator
    ifold,               \* number of inner folds done in this outer fold
    r2s,                 \* inner scores, one row per inner fold
    inner,               \* locals of the last inner fold
    inner_log,           \* the inner splits drawn so far, per outer fold
    refit,               \* locals of the refit and evaluation of this outer fold
    lists,               \* the per-fold output lists
    predictions,         \* per-trial held-out predictions
    predictions_to_save,
    writers,             \* the outer folds that assigned predictions[i], in order
    outdict,             \* the returned record, or None
    tasks,               \* the sessions dispatched by decode_prior.py, or None
    util                 \* a call of a helper function: its inputs and result, or None

vars == <<tasks, util, args, rng, call, first, pc, error, scoring_f, outer_kfold, fold,
          train_idxs_outer, test_idxs_outer, inner_kfold, ifold, r2s, inner,
          inner_log, refit, lists, predictions, predictions_to_save, writers,
          outdict>>

n_trials == Cardinality(DOMAIN args.Xs)
bins_per_trial == Len(args.Xs[0])
Trials == 0..(n_trials - 1)

(***************************************************************************)
(* Inputs.                                                                 *)
(***************************************************************************)
Fns == {"decode_cv", "regress_target"}
Estimators == {"Ridge", "LogisticRegression"}
Grids == {<<>>, <<1>>, <<0, 2>>, <<3, 1, 0>>}
\* test_prop=0.2
DefaultTestProp == <<1, 5>>

\* activity of the single unit in bin b of trial i, data set d
XVal(d, i, b) == ((d + 1) * i + b) % 3
\* target in bin b of trial i, data set d
YVal(d, i, b) == IF d % 2 = 0 THEN (i + b) % 2
                 ELSE (IF XVal(d, i, b) >= 1 THEN 1 ELSE 0)

\* the number of bins of trial i of n: b, or one fewer in the last trial of a
\* ragged input
NBins(n, b, rag, i) == IF rag /\ i = n - 1 THEN b - 1 ELSE b

MakeArgs(fn, n, b, rag, d, est, grid, gn, k, sh, ocv, seed, ni, no, bw, vb) ==
    [fn |-> fn,
     Xs |-> [i \in 0..(n - 1) |-> [t \in 1..NBins(n, b, rag, i) |-> XVal(d, i, t)]],
     ys |-> [i \in 0..(n - 1) |-> [t \in 1..NBins(n, b, rag, i) |-> YVal(d, i, t)]],
     estimator |-> est, hyperparam_grid |-> grid, no_grid |-> gn,
     test_prop |-> DefaultTestProp, verbose |-> vb,
     n_folds |-> k, shuffle |-> sh, outer_cv |-> ocv, rng_seed |-> seed,
     normalize_input |-> ni, normalize_output |-> no, balanced_weight |-> bw]

\* variant: the exception is caught and the call goes on to build its result
Swallow == "AGGREGATE"

\* where a raised exception leaves the call: neither function encloses any
\* statement in a try, so the exception leaves the function
Raise == "FAILED"

\* a generator that has not produced anything yet
Gen(kind) == [kind |-> kind, started |-> FALSE, items |-> <<>>]

NoneEntry == [ndim |-> -1, v |-> <<>>]
Scalar(x) == [ndim |-> 0, v |-> <<x>>]
Array(s) == [ndim |-> 1, v |-> s]

EmptyLists == [scores_test |-> <<>>, scores_train |-> <<>>, idxes_test |-> <<>>,
               idxes_train |-> <<>>, weights |-> <<>>, intercepts |-> <<>>,
               best_params |-> <<>>, predictions |-> <<>>, predictions_test |-> <<>>]

\* the locals of a call before its first statement
Fresh(a) ==
    /\ pc = "INIT"
    /\ error = None
    /\ scoring_f = None
    /\ outer_kfold = None
    /\ fold = 0
    /\ train_idxs_outer = <<>>
    /\ test_idxs_outer = <<>>
    /\ inner_kfold = None
    /\ ifold = 0
    /\ r2s = <<>>
    /\ inner = None
    /\ inner_log = <<>>
    /\ refit = None
    /\ lists = EmptyLists
    /\ predictions = [i \in DOMAIN a.Xs |-> NoneEntry]
    /\ predictions_to_save = [i \in DOMAIN a.Xs |-> NoneEntry]
    /\ writers = [i \in DOMAIN a.Xs |-> <<>>]
    /\ outdict = None

Init ==
    /\ \E fn \in Fns, n \in 2..MaxTrials, b \in 1..MaxBins, d \in 0..(NumData - 1),
          est \in Estimators, grid \in Grids, k \in 1..MaxFolds,
          sh \in BOOLEAN, ocv \in BOOLEAN, seed \in 0..MaxSeed,
          ni \in BOOLEAN, no \in BOOLEAN, bw \in BOOLEAN, rag \in BOOLEAN,
          gn \in BOOLEAN, vb \in BOOLEAN :
        \* regress_target has no seed, centering or weighting argument and
        \* takes one row per trial
        /\ fn = "regress_target" =>
              b = 1 /\ seed = 0 /\ ~ni /\ ~no /\ ~bw
        \* a ragged input: several bins per trial, one trial with fewer
        /\ rag =>
              /\ fn = "decode_cv" /\ b >= 2
              /\ est = "Ridge" /\ seed = 0 /\ ~ni /\ ~no /\ ~bw
        \* hyperparam_grid left at its default None: no grid values
        /\ gn => grid = <<>> /\ ~rag /\ ~vb
        \* verbose calls
        /\ vb => grid = <<1>> /\ d = 0 /\ seed = 0 /\ ~ni /\ ~no /\ ~bw /\ ~rag
        /\ args = MakeArgs(fn, n, b, rag, d, est, grid, gn, k, sh, ocv, seed,
                           ni, no, bw, vb)
    /\ rng = 0
    /\ call = 1
    /\ first = None
    /\ Fresh(args)
    /\ tasks = None
    /\ util = None

(***************************************************************************)
(* Split generators.  KFold(...).split(...) is a generator: the test of    *)
(* n_splits against the number of samples and the shuffle happen when the  *)
(* first pair is requested.                                                *)
(***************************************************************************)
\* variant: no comparison of n_splits with the number of samples
StartedUnchecked(g, n, k, shuffle, st) ==
    IF g.started THEN g
    ELSE [kind |-> g.kind, started |-> TRUE, items |-> KFoldSplit(n, k, shuffle, st)]

\* the generator g over n samples after its first pair has been requested;
\* of kind "raised" when KFold raises ValueError (n_splits > n_samples)
Started(g, n, k, shuffle, st) ==
    IF g.started THEN g
    ELSE IF k > n THEN [kind |-> "raised", started |-> TRUE, items |-> <<>>]
    ELSE [kind |-> g.kind, started |-> TRUE, items |-> KFoldSplit(n, k, shuffle, st)]

\* the random state after the generator g has been started in state st
AfterStart(g, shuffle, st) ==
    IF ~g.started /\ shuffle THEN Advance(st) ELSE st

(***************************************************************************)
(* One inner fold (decoder.py:161-196, decoding_utils.py:303-312).         *)
(***************************************************************************)
\* np.vstack([D[i] for i in trials]) / np.concatenate(...)
Rows(D, trials) == Concat([j \in 1..Len(trials) |-> D[trials[j]]])

\* variant: the inner index taken as a trial number
OuterTrainPosition(outer_train, i) == i

\* the trial held by X_train[i] and y_train[i] (X_train = [Xs[i] for i in train_idxs_outer])
OuterTrainTrial(outer_train, i) == outer_train[i + 1]

\* the trials selected from X_train by the inner index list idxs
InnerTrials(outer_train, idxs) ==
    [j \in 1..Len(idxs) |-> OuterTrainTrial(outer_train, idxs[j])]

\* variant: the inner loop left after its first pair
InnerStartedOnly(done, k) == done >= 1

\* the inner for loop ends when the generator has given its k pairs
InnerExhausted(done, k) == done = k

\* X.mean(axis=0) if flag else 0
Offset(flag, X) == IF flag THEN Mean(X) ELSE 0

\* variant: the mean taken over the inner train and test rows together
InnerMeanXAll(flag, X_train_inner, X_test_inner) ==
    Offset(flag, X_train_inner \o X_test_inner)

\* decoder.py:170: mean_X_train_inner, with the inner train and test rows in scope
InnerMeanX(flag, X_train_inner, X_test_inner) == Offset(flag, X_train_inner)

\* decoder.py:173: mean_y_train_inner
InnerMeanY(flag, y_train_inner, y_test_inner) == Offset(flag, y_train_inner)

\* the weights passed to fit; <<>> stands for sample_weight=None
SampleWeight(weighting, y) ==
    IF weighting = "balanced_weighting" THEN balanced_weighting(y)
    ELSE IF weighting = "compute_sample_weight" THEN compute_sample_weight(y)
    ELSE <<>>

\* the locals of one inner fold and its row of r2s
InnerFold(a, est, f, weighting, outer_train, split) ==
    LET train_trials == InnerTrials(outer_train, split.train)
        test_trials == InnerTrials(outer_train, split.test)
        X_train_raw == Rows(a.Xs, train_trials)
        y_train_raw == Rows(a.ys, train_trials)
        X_test_raw == Rows(a.Xs, test_trials)
        y_test_inner == Rows(a.ys, test_trials)
        mean_X == InnerMeanX(a.normalize_input, X_train_raw, X_test_raw)
        X_train_inner == Shift(X_train_raw, -mean_X)
        X_test_inner == Shift(X_test_raw, -mean_X)
        mean_y == InnerMeanY(a.normalize_output, y_train_raw, y_test_inner)
        y_train_inner == Shift(y_train_raw, -mean_y)
        w == SampleWeight(weighting, y_train_inner)
        row == [g \in 1..Len(a.hyperparam_grid) |->
                  LET model_inner == Fit(est, a.hyperparam_grid[g],
                                         X_train_inner, y_train_inner, w)
                      pred_test_inner == Shift(Predict(model_inner, X_test_inner), mean_y)
                  IN  Score(f, y_test_inner, pred_test_inner)]
    IN  [train_idxs_inner |-> split.train, test_idxs_inner |-> split.test,
         train_trials |-> train_trials, test_trials |-> test_trials,
         mean_X_train_inner |-> mean_X, mean_y_train_inner |-> mean_y,
         X_train_inner |-> X_train_inner, X_test_inner |-> X_test_inner,
         y_train_inner |-> y_train_inner, y_test_inner |-> y_test_inner,
         sample_weight |-> w, row |-> row]

(***************************************************************************)
(* decode_cv (decoder.py).                                                 *)
(***************************************************************************)
\* variant: no seeding, the random state stays as the process left it
dc_Unseeded(st, seed) == st

\* line 127: np.random.seed(rng_seed) replaces the random state st
dc_Seed(st, seed) == SeedState(seed)

\* variant: R2 whatever the estimator
dc_AlwaysR2(est) == "r2_score"

\* line 135: balanced accuracy for logistic regression, R2 otherwise
dc_ScoringF(est) ==
    IF est = "LogisticRegression" THEN "balanced_accuracy_score" ELSE "r2_score"

\* lines 105-141: containers, seed, outer splitter, scoring function
dc_Init ==
    /\ args.fn = "decode_cv"
    /\ pc = "INIT"
    /\ LET st == dc_Seed(rng, args.rng_seed)
           n_test == CeilProp(n_trials, args.test_prop)
       IN  IF args.outer_cv /\ args.n_folds < 2
           THEN \* KFold(n_splits=1) raises in its constructor
                /\ rng' = st
                /\ pc' = Raise
                /\ error' = "ValueError"
                /\ UNCHANGED <<outer_kfold, scoring_f>>
           ELSE IF ~args.outer_cv /\ n_test >= n_trials
           THEN \* train_test_split: the train set would be empty
                /\ rng' = st
                /\ pc' = Raise
                /\ error' = "ValueError"
                /\ UNCHANGED <<outer_kfold, scoring_f>>
           ELSE /\ outer_kfold' =
                      IF args.outer_cv THEN Gen("KFold")
                      ELSE [kind |-> "iter", started |-> TRUE,
                            items |-> <<TrainTestSplit(n_trials, args.test_prop,
                                                       args.shuffle, st)>>]
                /\ rng' = IF ~args.outer_cv /\ args.shuffle THEN Advance(st) ELSE st
                /\ scoring_f' = dc_ScoringF(args.estimator)
                /\ pc' = "OUTER_LOOP"
                /\ UNCHANGED error
    /\ UNCHANGED <<tasks, util, args, call, first, fold, train_idxs_outer, test_idxs_outer,
                   inner_kfold, ifold, r2s, inner, inner_log, refit, lists,
                   predictions, predictions_to_save, writers, outdict>>

\* lines 143-160: the next outer pair, the inner splitter, the score table
dc_NextOuter ==
    /\ args.fn = "decode_cv"
    /\ pc = "OUTER_LOOP"
    /\ LET g == Started(outer_kfold, n_trials, args.n_folds, args.shuffle, rng)
       IN  IF g.kind = "raised"
           THEN /\ pc' = Raise
                /\ error' = "ValueError"
                /\ UNCHANGED <<rng, outer_kfold, fold, train_idxs_outer, test_idxs_outer,
                               inner_kfold, ifold, r2s, inner_log>>
           ELSE /\ outer_kfold' = g
                /\ rng' = AfterStart(outer_kfold, args.shuffle, rng)
                /\ IF fold = Len(g.items)
                   THEN /\ pc' = "AGGREGATE"
                        /\ UNCHANGED <<error, fold, train_idxs_outer, test_idxs_outer,
                                       inner_kfold, ifold, r2s, inner_log>>
                   ELSE /\ fold' = fold + 1
                        /\ train_idxs_outer' = g.items[fold + 1].train
                        /\ test_idxs_outer' = g.items[fold + 1].test
                        /\ IF args.n_folds < 2
                           THEN /\ pc' = Raise
                                /\ error' = "ValueError"
                                /\ UNCHANGED <<inner_kfold, ifold, r2s, inner_log>>
                           ELSE IF args.no_grid
                           THEN \* line 159: None has no keys()
                                /\ pc' = Raise
                                /\ error' = "AttributeError"
                                /\ UNCHANGED <<inner_kfold, ifold, r2s, inner_log>>
                           ELSE /\ inner_kfold' = Gen("KFold")
                                /\ ifold' = 0
                                /\ r2s' = [j \in 1..args.n_folds |->
                                             [a \in 1..Len(args.hyperparam_grid) |-> 0]]
                                /\ inner_log' = Append(inner_log, <<>>)
                                /\ pc' = "INNER_SEARCH"
                                /\ UNCHANGED error
    /\ UNCHANGED <<tasks, util, args, call, first, scoring_f, inner, refit, lists,
                   predictions, predictions_to_save, writers, outdict>>

\* the weighting policy of decode_cv
dc_Weighting == IF args.balanced_weight THEN "balanced_weighting" ELSE None

\* lines 161-196: one inner fold, every grid value
dc_InnerFold ==
    /\ args.fn = "decode_cv"
    /\ pc = "INNER_SEARCH"
    /\ LET g == Started(inner_kfold, Len(train_idxs_outer), args.n_folds,
                        args.shuffle, rng)
       IN  IF g.kind = "raised"
           THEN /\ pc' = Raise
                /\ error' = "ValueError"
                /\ UNCHANGED <<rng, inner_kfold, ifold, r2s, inner, inner_log>>
           ELSE LET loc == InnerFold(args, args.estimator, scoring_f, dc_Weighting,
                                     train_idxs_outer, g.items[ifold + 1])
                IN  /\ inner_kfold' = g
                    /\ rng' = AfterStart(inner_kfold, args.shuffle, rng)
                    /\ inner' = loc
                    /\ r2s' = [r2s EXCEPT ![ifold + 1] = loc.row]
                    /\ inner_log' = [inner_log EXCEPT ![fold] =
                                        Append(@, g.items[ifold + 1])]
                    /\ ifold' = ifold + 1
                    /\ pc' = IF InnerExhausted(ifold + 1, args.n_folds)
                             THEN "REFIT" ELSE "INNER_SEARCH"
                    /\ UNCHANGED error
    /\ UNCHANGED <<tasks, util, args, call, first, scoring_f, outer_kfold, fold, train_idxs_outer,
                   test_idxs_outer, refit, lists, predictions, predictions_to_save,
                   writers, outdict>>

\* r2s.mean(axis=0)[a], in units of 1/n_folds (the sum of column a)
ColumnMean(m, a) == SeqSum([j \in 1..Len(m) |-> m[j][a]])

\* variant: the last position holding the maximum of v
ArgMaxLast(v) == CHOOSE i \in DOMAIN v :
                    /\ \A j \in DOMAIN v : v[j] <= v[i]
                    /\ \A j \in DOMAIN v : j > i => v[j] < v[i]

\* np.argmax(v) + 1: the first position holding the maximum of v
ArgMax(v) == CHOOSE i \in DOMAIN v :
                /\ \A j \in DOMAIN v : v[j] <= v[i]
                /\ \A j \in DOMAIN v : j < i => v[j] < v[i]

\* variant: the best mean score in place of the grid value that earned it
BestScore(grid, r2s_avg) == r2s_avg[ArgMax(r2s_avg)]

\* hyperparam_grid[key][np.argmax(r2s_avg)]
BestAlpha(grid, r2s_avg) == grid[ArgMax(r2s_avg)]

\* isinstance(estimator, cls): estimator is a class (it is called to build
\* each model), so it is an instance of no estimator class
IsInstance(est, cls) == FALSE

\* variant: the refit takes the trials of the outer test set as well
RefitAllTrials(outer_train, outer_test) ==
    SortedSeq(Range(outer_train) \cup Range(outer_test))

\* lines 150-151, 203-207: the trials whose rows the refit is fit on (X_train
\* and y_train, with X_test and y_test in scope)
RefitTrials(outer_train, outer_test) == outer_train

\* lines 198-226: average the inner scores, pick the best value, refit
dc_Refit ==
    /\ args.fn = "decode_cv"
    /\ pc = "REFIT"
    /\ LET grid == args.hyperparam_grid
           r2s_avg == [a \in 1..Len(grid) |-> ColumnMean(r2s, a)]
           X_raw == Rows(args.Xs, RefitTrials(train_idxs_outer, test_idxs_outer))
           mean_X_train == Offset(args.normalize_input, X_raw)
           X_train_array == Shift(X_raw, -mean_X_train)
           y_raw == Rows(args.ys, RefitTrials(train_idxs_outer, test_idxs_outer))
           mean_y_train == Offset(args.normalize_output, y_raw)
           y_train_array == Shift(y_raw, -mean_y_train)
           sample_weight == SampleWeight(dc_Weighting, y_train_array)
       IN  IF grid = <<>>
           THEN \* np.argmax of an empty array
                /\ pc' = Raise
                /\ error' = "ValueError"
                /\ UNCHANGED refit
           ELSE LET best_alpha == BestAlpha(grid, r2s_avg)
                IN  /\ refit' = [r2s_avg |-> r2s_avg,
                                 mean_X_train |-> mean_X_train,
                                 mean_y_train |-> mean_y_train,
                                 X_train_array |-> X_train_array,
                                 y_train_array |-> y_train_array,
                                 sample_weight |-> sample_weight,
                                 best_alpha |-> best_alpha,
                                 model |-> Fit(args.estimator, best_alpha,
                                               X_train_array, y_train_array,
                                               sample_weight)]
                    /\ pc' = "EVALUATE"
                    /\ UNCHANGED error
    /\ UNCHANGED <<tasks, util, args, rng, call, first, scoring_f, outer_kfold, fold,
                   train_idxs_outer, test_idxs_outer, inner_kfold, ifold, r2s,
                   inner, inner_log, lists, predictions, predictions_to_save,
                   writers, outdict>>

\* lines 245-262: the held-out prediction stored for trial i_global, the
\* i_fold-th (from 1) trial of the outer test set
dc_Prediction(i_fold, i_global, y_pred) ==
    IF bins_per_trial = 1
    THEN Scalar(y_pred[i_fold])
    ELSE Array(Shift(Predict(refit.model,
                             Shift(args.Xs[i_global], -refit.mean_X_train)),
                     refit.mean_y_train))

\* variant: the entry at the position within the fold
dc_WriteIndexInFold(i_fold, i_global) == i_fold - 1

\* lines 248, 256: the buffer entry assigned in iteration i_fold (from 1) of
\* enumerate(test_idxs_outer), whose trial is i_global
dc_WriteIndex(i_fold, i_global) == i_global

\* lines 236-240, 249-262: the entry of predictions_to_save for trial
\* i_global, the i_fold-th (from 1) trial of the outer test set
dc_SavedPrediction(i_fold, i_global, y_pred) ==
    IF IsInstance(args.estimator, "LogisticRegression")
    THEN IF bins_per_trial = 1
         THEN Scalar(PredictProbaRow(refit.model,
                                     Rows(args.Xs, test_idxs_outer)[i_fold]
                                        - refit.mean_X_train)
                     + refit.mean_y_train)
         ELSE Array(Shift(PredictProba(refit.model,
                                       Shift(args.Xs[i_global], -refit.mean_X_train)),
                          refit.mean_y_train))
    ELSE dc_Prediction(i_fold, i_global, y_pred)

RECURSIVE dc_StoreSaved(_, _, _)
\* lines 245-262: predictions_to_save after the first k iterations of the loop
dc_StoreSaved(buf, y_pred, k) ==
    IF k = 0 THEN buf
    ELSE [dc_StoreSaved(buf, y_pred, k - 1) EXCEPT
             ![dc_WriteIndex(k, test_idxs_outer[k])] =
                 dc_SavedPrediction(k, test_idxs_outer[k], y_pred)]

RECURSIVE dc_Store(_, _, _)
\* lines 245-262: the buffer buf after the first k iterations of the loop
dc_Store(buf, y_pred, k) ==
    IF k = 0 THEN buf
    ELSE [dc_Store(buf, y_pred, k - 1) EXCEPT
             ![dc_WriteIndex(k, test_idxs_outer[k])] =
                 dc_Prediction(k, test_idxs_outer[k], y_pred)]

RECURSIVE dc_Writers(_, _)
\* the folds that assigned each entry, after the first k iterations of the loop
dc_Writers(w, k) ==
    IF k = 0 THEN w
    ELSE [dc_Writers(w, k - 1) EXCEPT
             ![dc_WriteIndex(k, test_idxs_outer[k])] = Append(@, fold)]

\* variant: the list holds only the latest entry
ListReplace(l, x) == <<x>>

\* lines 264-272: list.append(x)
ListAppend(l, x) == Append(l, x)

\* lines 228-272: train score, test score, held-out predictions, records
dc_Evaluate ==
    /\ args.fn = "decode_cv"
    /\ pc = "EVALUATE"
    /\ LET model == refit.model
           y_pred_train == Shift(Predict(model, refit.X_train_array), refit.mean_y_train)
           score_train == Score(scoring_f,
                                Shift(refit.y_train_array, refit.mean_y_train),
                                Shift(y_pred_train, refit.mean_y_train))
           y_true == Rows(args.ys, test_idxs_outer)
           y_pred == Shift(Predict(model, Shift(Rows(args.Xs, test_idxs_outer),
                                                -refit.mean_X_train)),
                           refit.mean_y_train)
           n_test == Len(test_idxs_outer)
       IN  /\ predictions' = dc_Store(predictions, y_pred, n_test)
           /\ predictions_to_save' = dc_StoreSaved(predictions_to_save, y_pred, n_test)
           /\ writers' = dc_Writers(writers, n_test)
           /\ lists' = [lists EXCEPT
                          !.scores_train = ListAppend(@, score_train),
                          !.scores_test = ListAppend(@, Score(scoring_f, y_true, y_pred)),
                          !.idxes_test = ListAppend(@, test_idxs_outer),
                          !.idxes_train = ListAppend(@, train_idxs_outer),
                          !.weights = ListAppend(@, model.coef_),
                          !.intercepts = ListAppend(@, IF model.fit_intercept
                                                   THEN model.intercept_ ELSE None),
                          !.best_params = ListAppend(@, refit.best_alpha)]
           /\ pc' = "OUTER_LOOP"
    /\ UNCHANGED <<tasks, util, args, rng, call, first, error, scoring_f, outer_kfold, fold,
                   train_idxs_outer, test_idxs_outer, inner_kfold, ifold, r2s,
                   inner, inner_log, refit, outdict>>

\* np.concatenate(list of per-trial entries): numpy raises ValueError when
\* an entry is None or zero-dimensional
NpConcatenate(p) ==
    IF \E i \in DOMAIN p : p[i].ndim < 1 THEN [raised |-> TRUE, v |-> <<>>]
    ELSE [raised |-> FALSE,
          v |-> Concat([j \in 1..Cardinality(DOMAIN p) |-> p[j - 1].v])]

\* variant: the mean of the per-fold test scores
dc_MeanFoldScore(f, ys_true_full, ys_pred_full) == Mean(lists.scores_test)

\* line 277: the pooled score of the run
dc_PooledScore(f, ys_true_full, ys_pred_full) == Score(f, ys_true_full, ys_pred_full)

\* lines 274-319: pooled scores, the result record, logging
dc_Aggregate ==
    /\ args.fn = "decode_cv"
    /\ pc = "AGGREGATE"
    /\ LET ys_true_full == Rows(args.ys, Arange(n_trials))
           cat == NpConcatenate(predictions)
           ys_pred_full == cat.v
       IN  IF cat.raised
           THEN /\ pc' = Raise
                /\ error' = "ValueError"
                /\ UNCHANGED outdict
           ELSE IF args.verbose
           THEN \* line 304: the model has no attribute best_params_
                /\ pc' = Raise
                /\ error' = "AttributeError"
                /\ UNCHANGED outdict
           ELSE /\ outdict' =
                      [scores_test_full |-> dc_PooledScore(scoring_f, ys_true_full,
                                                           ys_pred_full),
                       scores_train |-> lists.scores_train,
                       scores_test |-> lists.scores_test,
                       Rsquared_test_full |-> r2_score(ys_true_full, ys_pred_full),
                       weights |-> lists.weights,
                       intercepts |-> lists.intercepts,
                       predictions_test |-> predictions_to_save,
                       idxes_test |-> lists.idxes_test,
                       idxes_train |-> lists.idxes_train,
                       best_params |-> lists.best_params,
                       n_folds |-> args.n_folds]
                /\ pc' = "DONE"
                /\ UNCHANGED error
    /\ UNCHANGED <<tasks, util, args, rng, call, first, scoring_f, outer_kfold, fold,
                   train_idxs_outer, test_idxs_outer, inner_kfold, ifold, r2s,
                   inner, inner_log, refit, lists, predictions,
                   predictions_to_save, writers>>

(***************************************************************************)
(* regress_target (decoding_utils.py).  tvec[i] is ys[i][1] and binned[i]  *)
(* is Xs[i]; predictions holds full_test_prediction.                       *)
(***************************************************************************)
\* line 294: the estimator class that is fit, whatever estimator was passed
estimatorObject == "Lasso"

\* regress_target centers nothing
rt_Args == [args EXCEPT !.normalize_input = FALSE, !.normalize_output = FALSE]

\* lines 268-294: containers and the outer splitter; no seeding
rt_Init ==
    /\ args.fn = "regress_target"
    /\ pc = "INIT"
    /\ LET n_test == CeilProp(n_trials, args.test_prop)
       IN  IF (args.outer_cv /\ args.n_folds < 2) \/ (~args.outer_cv /\ n_test >= n_trials)
           THEN /\ pc' = Raise
                /\ error' = "ValueError"
                /\ UNCHANGED <<rng, outer_kfold, scoring_f>>
           ELSE /\ outer_kfold' =
                      IF args.outer_cv THEN Gen("KFold")
                      ELSE [kind |-> "iter", started |-> TRUE,
                            items |-> <<TrainTestSplit(n_trials, args.test_prop,
                                                       args.shuffle, rng)>>]
                /\ rng' = IF ~args.outer_cv /\ args.shuffle THEN Advance(rng) ELSE rng
                /\ scoring_f' = "r2_score"
                /\ pc' = "OUTER_LOOP"
                /\ UNCHANGED error
    /\ UNCHANGED <<tasks, util, args, call, first, fold, train_idxs_outer, test_idxs_outer,
                   inner_kfold, ifold, r2s, inner, inner_log, refit, lists,
                   predictions, predictions_to_save, writers, outdict>>

\* lines 295-302: the next outer pair, the inner splitter, the score table
rt_NextOuter ==
    /\ args.fn = "regress_target"
    /\ pc = "OUTER_LOOP"
    /\ LET g == Started(outer_kfold, n_trials, args.n_folds, args.shuffle, rng)
       IN  IF g.kind = "raised"
           THEN /\ pc' = Raise
                /\ error' = "ValueError"
                /\ UNCHANGED <<rng, outer_kfold, fold, train_idxs_outer, test_idxs_outer,
                               inner_kfold, ifold, r2s, inner_log>>
           ELSE /\ outer_kfold' = g
                /\ rng' = AfterStart(outer_kfold, args.shuffle, rng)
                /\ IF fold = Len(g.items)
                   THEN /\ pc' = "AGGREGATE"
                        /\ UNCHANGED <<error, fold, train_idxs_outer, test_idxs_outer,
                                       inner_kfold, ifold, r2s, inner_log>>
                   ELSE /\ fold' = fold + 1
                        /\ train_idxs_outer' = g.items[fold + 1].train
                        /\ test_idxs_outer' = g.items[fold + 1].test
                        /\ IF args.n_folds < 2
                           THEN /\ pc' = Raise
                                /\ error' = "ValueError"
                                /\ UNCHANGED <<inner_kfold, ifold, r2s, inner_log>>
                           ELSE IF args.no_grid
                           THEN \* line 302: None is not subscriptable
                                /\ pc' = Raise
                                /\ error' = "TypeError"
                                /\ UNCHANGED <<inner_kfold, ifold, r2s, inner_log>>
                           ELSE /\ inner_kfold' = Gen("KFold")
                                /\ ifold' = 0
                                /\ r2s' = [j \in 1..args.n_folds |->
                                             [a \in 1..Len(args.hyperparam_grid) |-> 0]]
                                /\ inner_log' = Append(inner_log, <<>>)
                                /\ pc' = "INNER_SEARCH"
                                /\ UNCHANGED error
    /\ UNCHANGED <<tasks, util, args, call, first, scoring_f, inner, refit, lists,
                   predictions, predictions_to_save, writers, outdict>>

\* lines 303-312: one inner fold, every grid value
rt_InnerFold ==
    /\ args.fn = "regress_target"
    /\ pc = "INNER_SEARCH"
    /\ LET g == Started(inner_kfold, Len(train_idxs_outer), args.n_folds,
                        args.shuffle, rng)
       IN  IF g.kind = "raised"
           THEN /\ pc' = Raise
                /\ error' = "ValueError"
                /\ UNCHANGED <<rng, inner_kfold, ifold, r2s, inner, inner_log>>
           ELSE LET loc == InnerFold(rt_Args, estimatorObject, "r2_score",
                                     "compute_sample_weight",
                                     train_idxs_outer, g.items[ifold + 1])
                IN  /\ inner_kfold' = g
                    /\ rng' = AfterStart(inner_kfold, args.shuffle, rng)
                    /\ inner' = loc
                    /\ r2s' = [r2s EXCEPT ![ifold + 1] = loc.row]
                    /\ inner_log' = [inner_log EXCEPT ![fold] =
                                        Append(@, g.items[ifold + 1])]
                    /\ ifold' = ifold + 1
                    /\ pc' = IF InnerExhausted(ifold + 1, args.n_folds)
                             THEN "REFIT" ELSE "INNER_SEARCH"
                    /\ UNCHANGED error
    /\ UNCHANGED <<tasks, util, args, call, first, scoring_f, outer_kfold, fold, train_idxs_outer,
                   test_idxs_outer, refit, lists, predictions, predictions_to_save,
                   writers, outdict>>

\* lines 314-317: average the inner scores, pick the best value, refit
rt_Refit ==
    /\ args.fn = "regress_target"
    /\ pc = "REFIT"
    /\ LET grid == args.hyperparam_grid
           r2s_avg == [a \in 1..Len(grid) |-> ColumnMean(r2s, a)]
           X_train == Rows(args.Xs, RefitTrials(train_idxs_outer, test_idxs_outer))
           y_train == Rows(args.ys, RefitTrials(train_idxs_outer, test_idxs_outer))
           sample_weight == compute_sample_weight(y_train)
       IN  IF grid = <<>>
           THEN /\ pc' = Raise
                /\ error' = "ValueError"
                /\ UNCHANGED refit
           ELSE LET best_alpha == BestAlpha(grid, r2s_avg)
                IN  /\ refit' = [r2s_avg |-> r2s_avg,
                                 mean_X_train |-> 0,
                                 mean_y_train |-> 0,
                                 X_train_array |-> X_train,
                                 y_train_array |-> y_train,
                                 sample_weight |-> sample_weight,
                                 best_alpha |-> best_alpha,
                                 model |-> Fit(estimatorObject, best_alpha,
                                               X_train, y_train, sample_weight)]
                    /\ pc' = "EVALUATE"
                    /\ UNCHANGED error
    /\ UNCHANGED <<tasks, util, args, rng, call, first, scoring_f, outer_kfold, fold,
                   train_idxs_outer, test_idxs_outer, inner_kfold, ifold, r2s,
                   inner, inner_log, lists, predictions, predictions_to_save,
                   writers, outdict>>

\* lines 319-337: train score, test score, predictions, records
rt_Evaluate ==
    /\ args.fn = "regress_target"
    /\ pc = "EVALUATE"
    /\ LET clf == refit.model
           y_pred_train == Predict(clf, refit.X_train_array)
           y_true == Rows(args.ys, test_idxs_outer)
           y_pred == Predict(clf, Rows(args.Xs, test_idxs_outer))
       IN  /\ lists' = [lists EXCEPT
                          !.scores_train = ListAppend(@, r2_score(refit.y_train_array,
                                                              y_pred_train)),
                          !.scores_test = ListAppend(@, r2_score(y_true, y_pred)),
                          !.predictions = ListAppend(@, Predict(clf, Rows(args.Xs,
                                                        Arange(n_trials)))),
                          !.predictions_test = ListAppend(@, y_pred),
                          !.idxes_test = ListAppend(@, test_idxs_outer),
                          !.idxes_train = ListAppend(@, train_idxs_outer),
                          !.weights = ListAppend(@, clf.coef_),
                          !.intercepts = ListAppend(@, IF clf.fit_intercept
                                                   THEN clf.intercept_ ELSE None),
                          !.best_params = ListAppend(@, refit.best_alpha)]
           /\ pc' = "OUTER_LOOP"
    /\ UNCHANGED <<tasks, util, args, rng, call, first, error, scoring_f, outer_kfold, fold,
                   train_idxs_outer, test_idxs_outer, inner_kfold, ifold, r2s,
                   inner, inner_log, refit, predictions, predictions_to_save,
                   writers, outdict>>

RECURSIVE rt_Scatter(_, _)
\* lines 339-341: full_test_prediction after the first k folds are copied in
rt_Scatter(buf, k) ==
    IF k = 0 THEN buf
    ELSE LET prev == rt_Scatter(buf, k - 1)
             idx == lists.idxes_test[k]
             at(i) == {j \in 1..Len(idx) : idx[j] = i}
             pos(i) == CHOOSE j \in at(i) : \A j2 \in at(i) : j2 <= j
         IN  [i \in Trials |-> IF at(i) # {}
                               THEN Scalar(lists.predictions_test[k][pos(i)])
                               ELSE prev[i]]

\* lines 339-396: the pooled prediction vector, its score, the result record,
\* logging
rt_Aggregate ==
    /\ args.fn = "regress_target"
    /\ pc = "AGGREGATE"
    /\ IF Len(lists.idxes_test) < args.n_folds
       THEN \* idxes_test[k] for k in range(nFolds): list index out of range
            /\ pc' = Raise
            /\ error' = "IndexError"
            /\ UNCHANGED <<outdict, predictions, writers>>
       ELSE IF args.verbose
       THEN \* line 367: clf has no attribute best_params_
            /\ pc' = Raise
            /\ error' = "AttributeError"
            /\ UNCHANGED <<outdict, predictions, writers>>
       ELSE LET zeros == [i \in Trials |-> Scalar(0)]
                full_test_prediction == rt_Scatter(zeros, args.n_folds)
                tvec == Rows(args.ys, Arange(n_trials))
                full == [j \in 1..n_trials |-> full_test_prediction[j - 1].v[1]]
            IN  /\ predictions' = full_test_prediction
                /\ writers' = [i \in Trials |->
                       SortedSeq({k \in 1..args.n_folds :
                                    i \in Range(lists.idxes_test[k])})]
                /\ outdict' =
                      [Rsquared_test_full |-> r2_score(tvec, full),
                       Rsquareds_train |-> lists.scores_train,
                       Rsquareds_test |-> lists.scores_test,
                       weights |-> lists.weights,
                       intercepts |-> lists.intercepts,
                       predictions |-> lists.predictions,
                       predictions_test |-> lists.predictions_test,
                       idxes_test |-> lists.idxes_test,
                       idxes_train |-> lists.idxes_train,
                       best_params |-> lists.best_params,
                       nFolds |-> args.n_folds]
                /\ pc' = "DONE"
                /\ UNCHANGED error
    /\ UNCHANGED <<tasks, util, args, rng, call, first, scoring_f, outer_kfold, fold,
                   train_idxs_outer, test_idxs_outer, inner_kfold, ifold, r2s,
                   inner, inner_log, refit, lists, predictions_to_save>>

(***************************************************************************)
(* The process around the call.                                            *)
(***************************************************************************)
\* other code of the process draws from the numpy random state before the call
AmbientDraw ==
    /\ pc = "INIT"
    /\ rng' = Advance(rng)
    /\ UNCHANGED <<tasks, util, args, call, first, pc, error, scoring_f, outer_kfold, fold,
                   train_idxs_outer, test_idxs_outer, inner_kfold, ifold, r2s, inner,
                   inner_log, refit, lists, predictions, predictions_to_save,
                   writers, outdict>>

\* what a finished call leaves to its caller
Summary ==
    [pc |-> pc, error |-> error, idxes_test |-> lists.idxes_test,
     idxes_train |-> lists.idxes_train, inner_log |-> inner_log,
     best_params |-> lists.best_params, predictions |-> predictions,
     pooled |-> IF pc = "DONE"
                THEN (IF args.fn = "decode_cv" THEN outdict.scores_test_full
                      ELSE outdict.Rsquared_test_full)
                ELSE 0]

\* the caller makes the same call once more
CallAgain ==
    /\ pc \in {"DONE", "FAILED"}
    /\ call = 1
    /\ call' = 2
    /\ first' = Summary
    /\ pc' = "INIT"
    /\ error' = None
    /\ scoring_f' = None
    /\ outer_kfold' = None
    /\ fold' = 0
    /\ train_idxs_outer' = <<>>
    /\ test_idxs_outer' = <<>>
    /\ inner_kfold' = None
    /\ ifold' = 0
    /\ r2s' = <<>>
    /\ inner' = None
    /\ inner_log' = <<>>
    /\ refit' = None
    /\ lists' = EmptyLists
    /\ predictions' = [i \in Trials |-> NoneEntry]
    /\ predictions_to_save' = [i \in Trials |-> NoneEntry]
    /\ writers' = [i \in Trials |-> <<>>]
    /\ outdict' = None
    /\ UNCHANGED <<tasks, util, args, rng>>

Next ==
    \/ dc_Init \/ dc_NextOuter \/ dc_InnerFold \/ dc_Refit \/ dc_Evaluate
    \/ dc_Aggregate
    \/ rt_Init \/ rt_NextOuter \/ rt_InnerFold \/ rt_Refit \/ rt_Evaluate
    \/ rt_Aggregate
    \/ AmbientDraw \/ CallAgain

Spec == Init /\ [][Next]_vars

(***************************************************************************)
(* The session layer (decoding/decode_prior.py).  The main block submits   *)
(* fit_eid for every session to the cluster and collates the file names of *)
(* the futures that have finished; fit_eid fits the regions of its session one  *)
(* after the other, each with regress_target on the session and on its     *)
(* pseudo-sessions, and saves the results of a region once they are all    *)
(* computed.                                                               *)
(***************************************************************************)
NumSessions == 2
NumRegions == 2

Sessions == 1..NumSessions
Regions == 1..NumRegions

callvars == <<args, rng, call, first, pc, error, scoring_f, outer_kfold, fold,
              train_idxs_outer, test_idxs_outer, inner_kfold, ifold, r2s, inner,
              inner_log, refit, lists, predictions, predictions_to_save, writers,
              outdict>>

\* what region r of a session comes to: too few units to be fit, or
\* regress_target calls that return, or one that raises
Outcomes == {"few_units", "ok", "raises"}

\* lines 211-214: every session submitted, with the outcome of each region
TasksInit ==
    /\ \E outcome \in [Sessions -> [Regions -> Outcomes]] :
          tasks = [outcome |-> outcome,
                   status |-> [s \in Sessions |-> "pending"],
                   region |-> [s \in Sessions |-> 0],
                   filenames |-> [s \in Sessions |-> <<>>],
                   saved |-> {},
                   collated |-> FALSE,
                   finished |-> <<>>]
    /\ args = MakeArgs("regress_target", 4, 1, FALSE, 0, "Ridge", <<1>>, FALSE, 2,
                       FALSE, TRUE, 0, FALSE, FALSE, FALSE, FALSE)
    /\ rng = 0
    /\ call = 1
    /\ first = None
    /\ Fresh(args)
    /\ util = None

\* lines 151-188: fit_eid of session s works on its next region; an exception
\* of regress_target leaves fit_eid, which has no try around the fits, and
\* the future of the session ends in error
fit_eid_Region(s) ==
    /\ tasks.status[s] = "pending"
    /\ LET r == tasks.region[s] + 1
       IN  IF tasks.outcome[s][r] = "ok"
           THEN tasks' = [tasks EXCEPT
                            !.region[s] = r,
                            !.saved = @ \cup {<<s, r>>},
                            !.filenames[s] = Append(@, r),
                            !.status[s] = IF r = NumRegions THEN "finished"
                                          ELSE "pending"]
           ELSE IF tasks.outcome[s][r] = "few_units"
           THEN \* lines 155-156: continue
                tasks' = [tasks EXCEPT
                            !.region[s] = r,
                            !.status[s] = IF r = NumRegions THEN "finished"
                                          ELSE "pending"]
           ELSE tasks' = [tasks EXCEPT !.region[s] = r, !.status[s] = "error"]
    /\ UNCHANGED <<util, callvars>>

RECURSIVE Collected(_, _)
\* lines 217-220: the file names of the first n sessions whose future finished
Collected(t, n) ==
    IF n = 0 THEN <<>>
    ELSE Collected(t, n - 1)
            \o (IF t.status[n] = "finished"
                THEN [j \in 1..Len(t.filenames[n]) |-> <<n, t.filenames[n][j]>>]
                ELSE <<>>)

\* lines 215-220: the statement after the submissions collates the futures
\* whose status is 'finished' at that moment; nothing waits for the others
\* (no wait, gather or result() on a pending future), and they go on running
Collate ==
    /\ ~tasks.collated
    /\ tasks' = [tasks EXCEPT !.collated = TRUE,
                              !.finished = Collected(tasks, NumSessions)]
    /\ UNCHANGED <<util, callvars>>

TasksNext == (\E s \in Sessions : fit_eid_Region(s)) \/ Collate

TaskSpec == TasksInit /\ [][TasksNext]_vars

(***************************************************************************)
(* Properties.                                                             *)
(***************************************************************************)
KFoldMode == args.outer_cv /\ 2 <= args.n_folds /\ args.n_folds <= n_trials

\* the outer fold (from 1) whose recorded test set contains trial i
TestFoldsOf(i) == {k \in 1..Len(lists.idxes_test) : i \in Range(lists.idxes_test[k])}

\* C1: in K-fold mode with 2 <= K <= N, the K outer test sets of a call are
\* pairwise disjoint, their union is 0..N-1, and each outer train set is the
\* complement of its test set; the pair a fold works on is the pair drawn.
C1_OuterFoldsPartition ==
    (KFoldMode /\ fold >= 1) =>
        LET items == outer_kfold.items
        IN  /\ Len(items) = args.n_folds
            /\ \A j \in 1..Len(items) :
                  /\ Cardinality(Range(items[j].test)) = Len(items[j].test)
                  /\ Cardinality(Range(items[j].train)) = Len(items[j].train)
                  /\ Range(items[j].train) = Trials \ Range(items[j].test)
            /\ \A j, l \in 1..Len(items) :
                  j # l => Range(items[j].test) \cap Range(items[l].test) = {}
            /\ UNION {Range(items[j].test) : j \in 1..Len(items)} = Trials
            /\ test_idxs_outer = items[fold].test
            /\ train_idxs_outer = items[fold].train

C1_Witness ==
    /\ KFoldMode /\ args.shuffle
    /\ n_trials = 5 /\ args.n_folds = 3
    /\ pc = "AGGREGATE" /\ fold = 3
    /\ Len(lists.idxes_test) = 3
    /\ Len(lists.idxes_test[1]) = 2 /\ Len(lists.idxes_test[3]) = 1

\* C2: in K-fold mode, when the outer loop of decode_cv has ended, every
\* entry of the prediction buffer has been assigned exactly once, by the
\* outer fold whose test set contains that trial, and none is still unset.
C2_PredictionsWrittenOnce ==
    (args.fn = "decode_cv" /\ KFoldMode /\ pc = "AGGREGATE") =>
        \A i \in Trials :
            /\ Len(writers[i]) = 1
            /\ TestFoldsOf(i) = {writers[i][1]}
            /\ predictions[i] # NoneEntry
            /\ predictions_to_save[i] # NoneEntry

C2_Witness ==
    /\ args.fn = "decode_cv" /\ KFoldMode /\ pc = "AGGREGATE"
    /\ args.shuffle /\ args.n_folds = 3
    /\ writers[1] = <<2>> /\ writers[2] = <<1>>
    /\ \A i \in Trials : predictions[i] # NoneEntry

\* the buffer of held-out predictions read in trial order
PredictionsByTrial == Concat([j \in 1..n_trials |-> predictions[j - 1].v])

\* the prediction of the linear model of outer fold k for the rows of trial i
LinearPrediction(k, i) ==
    [b \in 1..Len(args.Xs[i]) |->
        lists.weights[k] * args.Xs[i][b] + lists.intercepts[k]]

\* C3: the pooled score of a finished call is the scoring function applied
\* once to all true targets against the held-out predictions in trial order,
\* each trial predicted by the model of the outer fold that held it out; it
\* is not an average of the per-fold scores.
C3_PooledScore ==
    (pc = "DONE") =>
        LET ys_true == Rows(args.ys, Arange(n_trials))
        IN  /\ IF args.fn = "decode_cv"
               THEN /\ outdict.scores_test_full =
                           Score(scoring_f, ys_true, PredictionsByTrial)
                    /\ outdict.Rsquared_test_full =
                           r2_score(ys_true, PredictionsByTrial)
               ELSE outdict.Rsquared_test_full = r2_score(ys_true, PredictionsByTrial)
            /\ Len(PredictionsByTrial) = Len(ys_true)
            /\ (args.fn = "regress_target"
                  \/ (args.estimator = "Ridge" /\ ~args.normalize_input
                        /\ ~args.normalize_output)) =>
                  \A i \in Trials : \E k \in TestFoldsOf(i) :
                      predictions[i].v = LinearPrediction(k, i)

C3_Witness ==
    /\ pc = "DONE" /\ args.fn = "decode_cv" /\ args.outer_cv
    /\ outdict.scores_test_full # Mean(lists.scores_test)
    /\ outdict.scores_test_full > 0

\* C4: a second decode_cv call with the same inputs and the same seed ends
\* as the first did, with the same outer and inner folds, selected
\* hyperparameters, held-out predictions and pooled score, whatever was
\* drawn from the random state before either call.
C4_SameSeedSameRun ==
    (args.fn = "decode_cv" /\ call = 2 /\ pc \in {"DONE", "FAILED"}) =>
        Summary = first

C4_Witness ==
    /\ args.fn = "decode_cv" /\ call = 2 /\ pc = "DONE"
    /\ args.shuffle /\ args.outer_cv /\ args.rng_seed = 1
    /\ first.pc = "DONE"
    /\ first.idxes_test = lists.idxes_test
    /\ first.idxes_test[1] # KFoldPair(n_trials, args.n_folds, FALSE, 0, 1).test

\* one step of the phase order of a call
PhaseStep ==
    /\ pc = "INIT" => pc' \in {"INIT", "OUTER_LOOP", "FAILED"}
    /\ (pc' = "INIT" /\ pc # "INIT") =>
          pc \in {"DONE", "FAILED"} /\ call' = call + 1
    /\ pc' = "OUTER_LOOP" => pc \in {"OUTER_LOOP", "INIT", "EVALUATE"}
    \* a fold starts only after the evaluation of the previous one is recorded
    /\ (pc' = "INNER_SEARCH" /\ pc # "INNER_SEARCH") =>
          /\ pc = "OUTER_LOOP"
          /\ fold' = fold + 1
          /\ ifold' = 0
          /\ Len(lists.scores_test) = fold
          /\ Len(lists.best_params) = fold
    /\ (pc' = "INNER_SEARCH" /\ pc = "INNER_SEARCH") =>
          fold' = fold /\ ifold' = ifold + 1 /\ ifold' < args.n_folds
    \* the refit starts only after every inner fold scored every grid value
    /\ pc' = "REFIT" =>
          /\ pc \in {"REFIT", "INNER_SEARCH"}
          /\ fold' = fold
          /\ ifold' = args.n_folds
          /\ Len(inner_log'[fold]) = args.n_folds
          /\ \A j \in 1..args.n_folds :
                Len(r2s'[j]) = Len(args.hyperparam_grid)
    /\ pc' = "EVALUATE" => pc \in {"EVALUATE", "REFIT"} /\ fold' = fold
    /\ pc = "EVALUATE" => pc' \in {"EVALUATE", "OUTER_LOOP"}
    /\ (pc = "EVALUATE" /\ pc' = "OUTER_LOOP") =>
          Len(lists'.scores_test) = fold /\ Len(lists'.best_params) = fold
    \* aggregation starts only after the last outer fold
    /\ (pc' = "AGGREGATE" /\ pc # "AGGREGATE") =>
          /\ pc = "OUTER_LOOP"
          /\ fold = Len(outer_kfold'.items)
          /\ Len(lists.scores_test) = fold
    /\ pc = "AGGREGATE" => pc' \in {"AGGREGATE", "DONE", "FAILED"}
    /\ pc' = "DONE" => pc \in {"DONE", "AGGREGATE"}

\* C5: within a call the phases occur in the order INIT, then for each outer
\* fold INNER_SEARCH, REFIT, EVALUATE, then AGGREGATE, then DONE; a refit
\* starts only after the inner search scored every grid value on every inner
\* fold, a fold starts only after the previous fold's evaluation has been
\* recorded, and aggregation starts only after the last outer fold.
C5_PhaseOrder == [][PhaseStep]_vars

C5_Witness ==
    /\ pc = "DONE" /\ fold = 3 /\ ifold = 3
    /\ Len(args.hyperparam_grid) = 3
    /\ Len(inner_log) = 3
    /\ \A k \in 1..3 : Len(inner_log[k]) = 3

\* a step of a call that has raised: nothing resumes it
RaisedStays ==
    pc = "FAILED" =>
        \/ pc' = "FAILED" /\ error' = error /\ outdict' = outdict
        \/ pc' = "INIT" /\ call' = call + 1

\* C6: a failure of any step inside the outer loop leaves the call raised to
\* its caller with no result record, whatever per-fold results had been
\* gathered; no step goes on after an exception.
C6_FailureRaises ==
    /\ [](/\ (pc = "FAILED") <=> (error # None)
          /\ pc # "DONE" => outdict = None
          /\ pc = "DONE" => fold >= 1 /\ Len(outdict.idxes_test) = fold)
    /\ [][RaisedStays]_vars

C6_Witness ==
    /\ pc = "FAILED" /\ error = "ValueError" /\ outdict = None
    /\ fold >= 1 /\ Len(lists.idxes_test) < fold
    /\ ifold = args.n_folds /\ Len(inner_log[fold]) = ifold

SubsetOfSeq(a, b) == Range(a) \subseteq Range(b)

InInnerFold == pc \in {"INNER_SEARCH", "REFIT", "EVALUATE"} /\ ifold >= 1

\* C7: in every outer fold, every trial of an inner train set or inner test
\* set belongs to the outer training set, none to the outer test set, and
\* the inner train and inner test sets of an inner fold are disjoint.
C7_InnerWithinOuterTrain ==
    InInnerFold =>
        /\ SubsetOfSeq(inner.train_trials, train_idxs_outer)
        /\ SubsetOfSeq(inner.test_trials, train_idxs_outer)
        /\ Range(inner.train_trials) \cap Range(test_idxs_outer) = {}
        /\ Range(inner.test_trials) \cap Range(test_idxs_outer) = {}
        /\ Range(inner.train_trials) \cap Range(inner.test_trials) = {}
        /\ Len(inner.train_trials) = Len(inner.train_idxs_inner)
        /\ Len(inner.test_trials) = Len(inner.test_idxs_inner)
        /\ Len(inner.X_train_inner) = Len(Rows(args.Xs, inner.train_trials))
        /\ Len(inner.X_test_inner) = Len(Rows(args.Xs, inner.test_trials))

C7_Witness ==
    /\ InInnerFold /\ pc = "REFIT" /\ fold = 2 /\ args.shuffle
    /\ Len(inner.train_trials) = 2 /\ Len(inner.test_trials) = 1
    /\ \E i \in Range(inner.test_trials) : i > SetMin(Range(test_idxs_outer))
    /\ \E i \in Range(inner.test_trials) : inner.test_idxs_inner[1] # i

\* the mean of the rows of D over the given trials, if centering is on
TrainMean(flag, D, trials) == IF flag THEN Mean(Rows(D, trials)) ELSE 0

\* C8: with centering on, the offsets of an inner fit are the means of its
\* inner-train rows and the offsets of the refit are the means of the
\* outer-train rows; the test rows are shifted by these same offsets and
\* contribute to none of them.
C8_OffsetsFromTrainRows ==
    /\ (args.fn = "decode_cv" /\ InInnerFold) =>
          LET mX == TrainMean(args.normalize_input, args.Xs, inner.train_trials)
              mY == TrainMean(args.normalize_output, args.ys, inner.train_trials)
          IN  /\ inner.mean_X_train_inner = mX
              /\ inner.mean_y_train_inner = mY
              /\ inner.X_train_inner = Shift(Rows(args.Xs, inner.train_trials), -mX)
              /\ inner.X_test_inner = Shift(Rows(args.Xs, inner.test_trials), -mX)
              /\ inner.y_train_inner = Shift(Rows(args.ys, inner.train_trials), -mY)
              /\ inner.y_test_inner = Rows(args.ys, inner.test_trials)
    /\ (args.fn = "decode_cv"
          /\ (pc = "EVALUATE" \/ (pc = "OUTER_LOOP" /\ fold >= 1))) =>
          LET mX == TrainMean(args.normalize_input, args.Xs, train_idxs_outer)
              mY == TrainMean(args.normalize_output, args.ys, train_idxs_outer)
              y_pred == Shift(Predict(refit.model,
                                      Shift(Rows(args.Xs, test_idxs_outer), -mX)), mY)
          IN  /\ refit.mean_X_train = mX
              /\ refit.mean_y_train = mY
              /\ refit.X_train_array = Shift(Rows(args.Xs, train_idxs_outer), -mX)
              /\ refit.y_train_array = Shift(Rows(args.ys, train_idxs_outer), -mY)
              /\ pc = "OUTER_LOOP" =>
                    lists.scores_test[fold] =
                        Score(scoring_f, Rows(args.ys, test_idxs_outer), y_pred)

C8_Witness ==
    /\ args.fn = "decode_cv" /\ InInnerFold
    /\ args.normalize_input /\ args.normalize_output
    /\ inner.mean_X_train_inner >= 1
    /\ inner.mean_X_train_inner #
          Mean(Rows(args.Xs, inner.train_trials \o inner.test_trials))
    /\ inner.mean_X_train_inner # Mean(Rows(args.Xs, inner.test_trials))

\* the positions of grid whose summed inner-test score is the highest
BestPositions ==
    {a \in 1..Len(args.hyperparam_grid) :
        \A b \in 1..Len(args.hyperparam_grid) :
            SeqSum([j \in 1..args.n_folds |-> r2s[j][b]])
               <= SeqSum([j \in 1..args.n_folds |-> r2s[j][a]])}

\* C9: the hyperparameter selected for an outer fold is the grid value with
\* the highest mean inner-test score over the inner folds; of several grid
\* values with the highest mean, the first in grid order is selected.
C9_SelectsFirstBest ==
    (pc = "EVALUATE") =>
        /\ BestPositions # {}
        /\ refit.best_alpha = args.hyperparam_grid[SetMin(BestPositions)]

C9_Witness ==
    /\ pc = "EVALUATE"
    /\ Cardinality(BestPositions) >= 2
    /\ Cardinality(BestPositions) < Len(args.hyperparam_grid)
    /\ refit.best_alpha = args.hyperparam_grid[SetMin(BestPositions)]
    /\ \E a \in BestPositions : args.hyperparam_grid[a] # refit.best_alpha

\* C10: with a grid of exactly one value, the hyperparameter selected and
\* recorded in best_params for every outer fold is that value.
C10_SingletonGrid ==
    (Len(args.hyperparam_grid) = 1) =>
        /\ \A j \in 1..Len(lists.best_params) :
              lists.best_params[j] = args.hyperparam_grid[1]
        /\ pc = "EVALUATE" => refit.best_alpha = args.hyperparam_grid[1]
        /\ pc = "DONE" =>
              /\ Len(outdict.best_params) = fold
              /\ \A j \in 1..fold : outdict.best_params[j] = args.hyperparam_grid[1]

C10_Witness ==
    /\ Len(args.hyperparam_grid) = 1
    /\ pc = "DONE" /\ fold = 3
    /\ outdict.best_params = <<1, 1, 1>>
    /\ SeqSum([j \in 1..args.n_folds |-> r2s[j][1]]) # 1

\* C11 (as stated): a call with an empty hyperparameter grid raises
\* ConfigurationError before any data is touched: no train/test pair is
\* drawn and no inner fold is run.
C11_EmptyGridRejectedFirst ==
    (args.hyperparam_grid = <<>> /\ ~args.no_grid) =>
        /\ pc \in {"INIT", "FAILED"}
        /\ pc = "FAILED" => error = "ConfigurationError"
        /\ fold = 0 /\ ifold = 0

\* a step taken by the call itself
CallStep == pc' # "INIT"

\* C12 (as stated): a call neither reads nor modifies the process-wide
\* random state: no step of a call changes it, and the outer and inner fold
\* assignments of a call are those of the same call made earlier, whatever
\* was drawn in the process in between.
C12_OwnRandomness ==
    /\ [][CallStep => rng' = rng]_vars
    /\ []((call = 2 /\ pc \in {"DONE", "FAILED"}) =>
             /\ lists.idxes_test = first.idxes_test
             /\ inner_log = first.inner_log)

\* the metric a decode_cv call is to use throughout
ExpectedMetric ==
    IF args.estimator = "LogisticRegression" THEN "balanced_accuracy_score"
    ELSE "r2_score"

\* C13: within one decode_cv call every score (each inner-fold score, each
\* per-fold train and test score, and scores_test_full) is computed with
\* one scoring function: balanced accuracy when the estimator is logistic
\* regression, R2 otherwise.
C13_OneScoringFunction ==
    (args.fn = "decode_cv") =>
        /\ scoring_f # None => scoring_f = ExpectedMetric
        /\ InInnerFold =>
              /\ r2s[ifold] = inner.row
              /\ \A g \in 1..Len(args.hyperparam_grid) :
                    inner.row[g] =
                        Score(ExpectedMetric, inner.y_test_inner,
                              Shift(Predict(Fit(args.estimator, args.hyperparam_grid[g],
                                                inner.X_train_inner, inner.y_train_inner,
                                                inner.sample_weight),
                                            inner.X_test_inner),
                                    inner.mean_y_train_inner))
        /\ (pc = "OUTER_LOOP" /\ fold >= 1) =>
              LET y_pred_train == Shift(Predict(refit.model, refit.X_train_array),
                                        refit.mean_y_train)
                  y_pred == Shift(Predict(refit.model,
                                          Shift(Rows(args.Xs, test_idxs_outer),
                                                -refit.mean_X_train)),
                                  refit.mean_y_train)
              IN  /\ lists.scores_test[fold] =
                        Score(ExpectedMetric, Rows(args.ys, test_idxs_outer), y_pred)
                  /\ lists.scores_train[fold] =
                        Score(ExpectedMetric,
                              Shift(refit.y_train_array, refit.mean_y_train),
                              Shift(y_pred_train, refit.mean_y_train))
        /\ pc = "DONE" =>
              outdict.scores_test_full =
                  Score(ExpectedMetric, Rows(args.ys, Arange(n_trials)),
                        PredictionsByTrial)

\* the held-out predictions of the trials idxs, in that order
PredictionsOf(idxs) == Concat([j \in 1..Len(idxs) |-> predictions[idxs[j]].v])

C13_Witness ==
    /\ args.fn = "decode_cv" /\ pc = "DONE"
    /\ args.estimator = "LogisticRegression"
    /\ outdict.scores_test_full # outdict.Rsquared_test_full
    /\ \E k \in 1..fold :
          lists.scores_test[k] # r2_score(Rows(args.ys, lists.idxes_test[k]),
                                          PredictionsOf(lists.idxes_test[k]))

\* C14 (as stated): for logistic regression with one bin per trial the saved
\* held-out prediction of a trial is the probability of the first class; for
\* every other estimator it is the model's prediction.
C14_SavedPredictions ==
    (args.fn = "decode_cv" /\ pc = "OUTER_LOOP" /\ fold >= 1) =>
        \A i \in Range(test_idxs_outer) :
            predictions_to_save[i] =
                IF args.estimator = "LogisticRegression" /\ bins_per_trial = 1
                THEN Scalar(PredictProbaRow(refit.model,
                                            args.Xs[i][1] - refit.mean_X_train)
                            + refit.mean_y_train)
                ELSE predictions[i]

C16_SingleSplitCompletes ==
    (~args.outer_cv /\ Len(lists.idxes_test) = 1) =>
        /\ pc # "FAILED"
        /\ pc = "DONE" =>
              IF args.fn = "decode_cv"
              THEN outdict.scores_test_full =
                       Score(scoring_f, Rows(args.ys, lists.idxes_test[1]),
                             PredictionsOf(lists.idxes_test[1]))
              ELSE outdict.Rsquared_test_full =
                       r2_score(Rows(args.ys, lists.idxes_test[1]),
                                PredictionsOf(lists.idxes_test[1]))

BadFoldCount == args.outer_cv /\ (args.n_folds < 2 \/ n_trials < args.n_folds)

Ragged == \E i \in Trials : Len(args.Xs[i]) # bins_per_trial

\* C18 (as stated): under a multi-bin target with one trial of a different
\* bin count, the call raises DataShapeError when the rows are stacked,
\* before any model is fit: no inner fold is ever fit and scored.
C18_RaggedRejected ==
    Ragged =>
        /\ ifold = 0
        /\ pc \in {"INIT", "OUTER_LOOP", "INNER_SEARCH", "FAILED"}
        /\ (pc = "FAILED" /\ ~BadFoldCount /\ args.n_folds >= 2
              /\ Len(train_idxs_outer) >= args.n_folds) =>
              error = "DataShapeError"

\* the per-fold lists of a call
FoldLists(l) ==
    IF args.fn = "decode_cv"
    THEN <<l.weights, l.intercepts, l.best_params, l.scores_train, l.scores_test,
           l.idxes_train, l.idxes_test>>
    ELSE <<l.weights, l.intercepts, l.best_params, l.scores_train, l.scores_test,
           l.idxes_train, l.idxes_test, l.predictions, l.predictions_test>>

\* the number of outer folds completed
FoldsCompleted ==
    IF pc \in {"INNER_SEARCH", "REFIT", "EVALUATE"} THEN fold - 1
    ELSE IF pc = "FAILED" THEN Len(lists.idxes_test)
    ELSE fold

IsPrefix(a, b) == Len(a) <= Len(b) /\ SubSeq(b, 1, Len(a)) = a

\* within a call, every list keeps its entries and grows by at most one
ListsOnlyGrow ==
    (call' = call) =>
        \A f \in 1..Len(FoldLists(lists)) :
            /\ IsPrefix(FoldLists(lists)[f], FoldLists(lists')[f])
            /\ Len(FoldLists(lists')[f]) <= Len(FoldLists(lists)[f]) + 1

\* C19: one fit record (coefficients, intercept, selected hyperparameter,
\* train score, test score, train and test index sets) is appended per
\* completed outer fold, so all per-fold lists have the same length, the
\* number of outer folds completed; an entry once appended is never
\* modified by a later fold or by aggregation, which returns the lists.
C19_OneRecordPerFold ==
    /\ [](/\ \A f \in 1..Len(FoldLists(lists)) :
                Len(FoldLists(lists)[f]) = FoldsCompleted
          /\ pc = "FAILED" => Len(lists.idxes_test) \in {fold - 1, fold, 0}
          /\ pc = "DONE" =>
                /\ outdict.weights = lists.weights
                /\ outdict.intercepts = lists.intercepts
                /\ outdict.best_params = lists.best_params
                /\ outdict.idxes_train = lists.idxes_train
                /\ outdict.idxes_test = lists.idxes_test
                /\ IF args.fn = "decode_cv"
                   THEN /\ outdict.scores_train = lists.scores_train
                        /\ outdict.scores_test = lists.scores_test
                   ELSE /\ outdict.Rsquareds_train = lists.scores_train
                        /\ outdict.Rsquareds_test = lists.scores_test)
    /\ [][ListsOnlyGrow]_vars

C19_Witness ==
    /\ pc = "DONE" /\ fold = 3
    /\ \A f \in 1..Len(FoldLists(lists)) : Len(FoldLists(lists)[f]) = 3
    /\ lists.weights[1] # lists.weights[3]
    /\ lists.best_params[1] # lists.best_params[2]

\* C20 (as stated): the failure of one task does not abort its siblings:
\* when the run is over, every region whose fits succeed on their own has
\* had its results saved, whatever happened to the other regions and
\* sessions.
C20_SiblingsComplete ==
    (\A t \in Sessions : tasks.status[t] # "pending") =>
        \A s \in Sessions, r \in Regions :
            tasks.outcome[s][r] = "ok" => <<s, r>> \in tasks.saved

(***************************************************************************)
(* Sample weighting on its own: the weights that a fit receives for a      *)
(* target vector of two classes (decoder.py:178-188 and 211-219,           *)
(* decoding_utils.py:307-317).                                             *)
(***************************************************************************)
MaxCommon == 90
MaxRare == 10

\* a target vector of n0 samples of class 0 and n1 samples of class 1, the
\* samples of class 1 first or last
TargetVector(n0, n1, ones_first) ==
    [i \in 1..(n0 + n1) |->
        IF ones_first THEN (IF i <= n1 THEN 1 ELSE 0)
        ELSE (IF i <= n0 THEN 0 ELSE 1)]

\* the target vector as the fit sees it: decode_cv subtracts the mean of the
\* training targets first when normalize_output is set
WeightsInit ==
    /\ \E weighting \in {"balanced_weighting", "compute_sample_weight"},
          n0 \in 1..MaxCommon, n1 \in 0..MaxRare,
          ones_first \in BOOLEAN, normalize_output \in BOOLEAN :
        /\ weighting = "compute_sample_weight" => ~normalize_output
        /\ LET y == TargetVector(n0, n1, ones_first)
           IN  util = [fn |-> weighting, y |-> y,
                       vec |-> Shift(y, -Offset(normalize_output, y)),
                       done |-> FALSE, sample_weight |-> <<>>]
    /\ tasks = None
    /\ args = MakeArgs("decode_cv", 2, 1, FALSE, 0, "Ridge", <<1>>, FALSE, 2,
                       FALSE, TRUE, 0, FALSE, FALSE, FALSE, FALSE)
    /\ rng = 0
    /\ call = 1
    /\ first = None
    /\ Fresh(args)

\* sample_weight = balanced_weighting(vec=...) / compute_sample_weight("balanced", y=...)
ComputeWeights ==
    /\ ~util.done
    /\ util' = [util EXCEPT !.done = TRUE,
                            !.sample_weight = SampleWeight(util.fn, util.vec)]
    /\ UNCHANGED <<tasks, callvars>>

WeightsNext == ComputeWeights

WeightSpec == WeightsInit /\ [][WeightsNext]_vars

\* the samples of class c of the target vector
SamplesOf(c) == {i \in DOMAIN util.y : util.y[i] = c}

C22_FitsSuppliedEstimator ==
    (args.fn = "regress_target" /\ pc = "EVALUATE") =>
        refit.model.est = args.estimator

\* C23: a call whose hyperparam_grid is left at its default None (with a
\* valid fold count) does no hyperparameter search and completes with a
\* result record: it never ends raised
C23_NoGridCompletes ==
    (args.no_grid /\ KFoldMode) => pc # "FAILED"

\* the result record of the call can be built from what the folds gathered
ResultBuilt ==
    IF args.fn = "decode_cv" THEN ~NpConcatenate(predictions).raised
    ELSE Len(lists.idxes_test) >= args.n_folds

\* C27: the verbose flag affects logging only: whatever its value, the call
\* completes with its result record whenever that record can be built
C27_VerboseOnlyLogs ==
    [][(pc = "AGGREGATE" /\ pc' # "AGGREGATE") =>
          (pc' = "DONE" <=> ResultBuilt)]_vars

\* the predictions of model m on the centered rows X, on the scale of the
\* targets: the training mean added back once
Uncentered(m, X, mean_y) == Shift(Predict(m, X), mean_y)

\* C24: with output centering, every score compares the original targets
\* with predictions to which the training-fold target mean was added back
\* once: the inner-test scores, the train score and the test score of each
\* outer fold
C24_MeanAddedBackOnce ==
    (args.fn = "decode_cv" /\ args.normalize_output) =>
        /\ (pc \in {"INNER_SEARCH", "REFIT"} /\ ifold >= 1) =>
              \A g \in 1..Len(args.hyperparam_grid) :
                  r2s[ifold][g] =
                      Score(scoring_f,
                            Rows(args.ys, inner.test_trials),
                            Uncentered(Fit(args.estimator, args.hyperparam_grid[g],
                                           inner.X_train_inner, inner.y_train_inner,
                                           inner.sample_weight),
                                       inner.X_test_inner,
                                       inner.mean_y_train_inner))
        /\ (pc = "OUTER_LOOP" /\ fold >= 1 /\ Len(lists.scores_test) = fold) =>
              /\ lists.scores_test[fold] =
                    Score(scoring_f,
                          Rows(args.ys, test_idxs_outer),
                          Uncentered(refit.model,
                                     Shift(Rows(args.Xs, test_idxs_outer),
                                           -refit.mean_X_train),
                                     refit.mean_y_train))
              /\ lists.scores_train[fold] =
                    Score(scoring_f,
                          Rows(args.ys, train_idxs_outer),
                          Uncentered(refit.model, refit.X_train_array,
                                     refit.mean_y_train))

\* an outer fold whose refit is done: being evaluated, or just recorded
Refitted == pc = "EVALUATE" \/ (pc = "OUTER_LOOP" /\ fold >= 1)

\* C25: in each outer fold the model that is evaluated and recorded is the
\* estimator fit from scratch on the rows of the outer-training trials only
\* (no outer-test trial among them), with the grid value selected by the
\* inner search of this fold, and with the centering and weighting of the
\* inner fits: centered by the means of the training rows under the same
\* flags, weighted exactly when the inner fits are.
C25_RefitOnOuterTrain ==
    Refitted =>
        LET dc == args.fn = "decode_cv"
            est == IF dc THEN args.estimator ELSE estimatorObject
            X == Rows(args.Xs, train_idxs_outer)
            y == Rows(args.ys, train_idxs_outer)
            mX == IF dc /\ args.normalize_input THEN Mean(X) ELSE 0
            mY == IF dc /\ args.normalize_output THEN Mean(y) ELSE 0
            weighted == IF dc THEN args.balanced_weight ELSE TRUE
            w == IF weighted THEN InverseFrequency(Shift(y, -mY)) ELSE <<>>
        IN  /\ Range(train_idxs_outer) \cap Range(test_idxs_outer) = {}
            /\ Len(refit.X_train_array) = Len(X)
            /\ refit.best_alpha = args.hyperparam_grid[SetMin(BestPositions)]
            /\ refit.model = Fit(est, refit.best_alpha, Shift(X, -mX), Shift(y, -mY), w)
            /\ (inner.sample_weight = <<>>) <=> (refit.sample_weight = <<>>)
            /\ (inner.sample_weight = <<>>) <=> ~weighted
            /\ inner.mean_X_train_inner =
                  (IF dc /\ args.normalize_input
                   THEN Mean(Rows(args.Xs, inner.train_trials)) ELSE 0)
            /\ inner.mean_y_train_inner =
                  (IF dc /\ args.normalize_output
                   THEN Mean(Rows(args.ys, inner.train_trials)) ELSE 0)
            /\ (pc = "OUTER_LOOP") =>
                  /\ lists.weights[fold] = refit.model.coef_
                  /\ lists.intercepts[fold] = refit.model.intercept_
                  /\ lists.best_params[fold] = refit.best_alpha

\* a refit on fewer rows than the call was given, centered and weighted, whose
\* model differs from the fit on the rows of all trials
C25_Witness ==
    /\ Refitted /\ pc = "OUTER_LOOP"
    /\ args.fn = "decode_cv" /\ args.normalize_input /\ args.balanced_weight
    /\ Len(args.hyperparam_grid) >= 2
    /\ refit.sample_weight # <<>>
    /\ refit.model # Fit(args.estimator, refit.best_alpha,
                         Shift(Rows(args.Xs, Arange(n_trials)), -refit.mean_X_train),
                         Shift(Rows(args.ys, Arange(n_trials)), -refit.mean_y_train),
                         InverseFrequency(Rows(args.ys, Arange(n_trials))))

\* the call raised when the first inner pair of an outer fold was requested
InnerSplitFailed == pc = "FAILED" /\ fold >= 1 /\ ifold = 0

\* C26: when the outer K-fold split is valid (2 <= K <= N), every outer
\* training set holds at least K trials and the inner split of no outer fold
\* fails
C26_InnerSplitValid ==
    (KFoldMode /\ ~args.no_grid) =>
        /\ fold >= 1 => Len(train_idxs_outer) >= args.n_folds
        /\ ~InnerSplitFailed

\* the collation statement is executed in this step
Collating == ~tasks.collated /\ tasks'.collated

\* C28: collation runs only after every submitted session task has reached
\* a final state (finished or failed), so the collated output holds the
\* results of every session task that finishes successfully
C28_CollatesAfterAllFinal ==
    /\ [][Collating => \A s \in Sessions : tasks.status[s] # "pending"]_vars
    /\ [](tasks.collated =>
             \A s \in Sessions : tasks.status[s] = "finished" =>
                 \A j \in 1..Len(tasks.filenames[s]) :
                     <<s, tasks.filenames[s][j]>> \in Range(tasks.finished))

(***************************************************************************)
(* compute_mask (prior_localization/functions/utils.py).  Times are whole  *)
(* numbers; an optional argument is <<>> for None and <<v>> for the value  *)
(* v, a time is <<>> for NaN and <<t>> for t.                              *)
(***************************************************************************)
NumMaskTrials == 3

\* NB_TRIALS_TAKEOUT_END of settings.py
NB_TRIALS_TAKEOUT_END == 0

MaskTrials == 1..NumMaskTrials

\* what is wrong with one trial of the table, if anything
TrialDefects == {"none", "nan_align", "no_movement", "fast", "no_choice", "unbiased"}

\* the time between the go cues of two successive trials
GoCueGaps == {1, 3, 6}

RECURSIVE GoCueTime(_, _)
\* the go cue of trial i, the first trial at 10
GoCueTime(gaps, i) == IF i = 1 THEN 10 ELSE GoCueTime(gaps, i - 1) + gaps[i - 1]

\* the rows of trials_df: trial bad has the defect, the other trials none;
\* a trial starts 1 before its go cue, the stimulus comes on at the go cue
\* and the first movement 2 later
TrialsTable(gaps, bad, defect) ==
    [i \in MaskTrials |->
        LET t == GoCueTime(gaps, i)
            d == IF i = bad THEN defect ELSE "none"
        IN  [goCue_times |-> <<t>>,
             trial_start |-> <<t - 1>>,
             stimOn_times |-> IF d = "nan_align" THEN <<>> ELSE <<t>>,
             firstMovement_times |-> IF d = "no_movement" THEN <<>>
                                     ELSE IF d = "fast" THEN <<t>> ELSE <<t + 2>>,
             probabilityLeft |-> IF d = "unbiased" THEN 5 ELSE 8,
             choice |-> IF d = "no_choice" THEN 0 ELSE 1]]

MaskInit ==
    /\ \E gaps \in [1..(NumMaskTrials - 1) -> GoCueGaps],
          bad \in MaskTrials, defect \in TrialDefects,
          has_goCue_times \in BOOLEAN, has_trial_start \in BOOLEAN,
          lens \in {<<<<>>, <<>>>>, <<<<1>>, <<5>>>>, <<<<1>>, <<>>>>},
          window_end \in {0, 2}, no_unbias \in BOOLEAN :
        /\ defect = "none" => bad = 1
        /\ util = [fn |-> "compute_mask",
                   trials_df |-> TrialsTable(gaps, bad, defect),
                   columns |-> {"stimOn_times", "firstMovement_times",
                                "probabilityLeft", "choice"}
                               \cup (IF has_goCue_times THEN {"goCue_times"} ELSE {})
                               \cup (IF has_trial_start THEN {"trial_start"} ELSE {}),
                   align_time |-> "stimOn_times",
                   time_window |-> <<-6, window_end>>,
                   min_len |-> lens[1], max_len |-> lens[2],
                   no_unbias |-> no_unbias, min_rt |-> <<1>>, max_rt |-> <<>>,
                   done |-> FALSE, error |-> None, mask |-> <<>>]
    /\ tasks = None
    /\ args = MakeArgs("decode_cv", 2, 1, FALSE, 0, "Ridge", <<1>>, FALSE, 2,
                       FALSE, TRUE, 0, FALSE, FALSE, FALSE, FALSE)
    /\ rng = 0
    /\ call = 1
    /\ first = None
    /\ Fresh(args)

\* lines 50-53: firstMovement_times - stimOn_times, NaN when either is
ReactTime(row) ==
    IF row.firstMovement_times = <<>> \/ row.stimOn_times = <<>> THEN <<>>
    ELSE <<row.firstMovement_times[1] - row.stimOn_times[1]>>

\* lines 58-71 and 91: the align event and the first movement are not NaN,
\* the block is biased if no_unbias, the reaction time is not below min_rt
\* nor above max_rt (no comparison with NaN is true), the animal responded
KeepTrial(u, i) ==
    LET row == u.trials_df[i]
        rt == ReactTime(row)
    IN  /\ row[u.align_time] # <<>>
        /\ row.firstMovement_times # <<>>
        /\ u.no_unbias => row.probabilityLeft # 5
        /\ u.min_rt # <<>> => ~(rt # <<>> /\ rt[1] < u.min_rt[1])
        /\ u.max_rt # <<>> => ~(rt # <<>> /\ rt[1] > u.max_rt[1])
        /\ row.choice # 0

\* lines 79-81: the go cue comes more than min_len and less than max_len
\* after the previous one; the difference counts as 2 for the first trial
LengthFilter(u, i) ==
    LET start_diff == IF i = 1 THEN 2
                      ELSE u.trials_df[i].goCue_times[1]
                               - u.trials_df[i - 1].goCue_times[1]
    IN  start_diff > u.min_len[1] /\ start_diff < u.max_len[1]

\* lines 84-87: the window of the trial ends before the next trial starts;
\* holds for the final trial, and for a trial whose align event is NaN fails
OverlapFilter(u, i) ==
    IF i = NumMaskTrials THEN TRUE
    ELSE /\ u.trials_df[i][u.align_time] # <<>>
         /\ u.trials_df[i][u.align_time][1] + u.time_window[2]
               < u.trials_df[i + 1].trial_start[1]

\* lines 73-77: the condition under which the two filters are entered
FiltersEntered(u) ==
    /\ "goCue_times" \in u.columns
    /\ u.max_len # <<>>
    /\ u.min_len # <<>>

\* lines 93-94
TakeOutEnd(mask) ==
    IF NB_TRIALS_TAKEOUT_END > 0
    THEN [i \in DOMAIN mask |->
            IF i > Len(mask) - NB_TRIALS_TAKEOUT_END THEN FALSE ELSE mask[i]]
    ELSE mask

\* compute_mask(trials_df, align_time, time_window, min_len, max_len, ...)
compute_mask ==
    /\ util.fn = "compute_mask"
    /\ ~util.done
    /\ IF FiltersEntered(util) /\ "trial_start" \notin util.columns
       THEN \* line 86: trials_df has no attribute trial_start
            util' = [util EXCEPT !.done = TRUE, !.error = "AttributeError"]
       ELSE util' = [util EXCEPT
                       !.done = TRUE,
                       !.mask = TakeOutEnd(
                           [i \in MaskTrials |->
                               /\ KeepTrial(util, i)
                               /\ FiltersEntered(util) =>
                                     LengthFilter(util, i) /\ OverlapFilter(util, i)])]
    /\ UNCHANGED <<tasks, callvars>>

MaskNext == compute_mask

MaskSpec == MaskInit /\ [][MaskNext]_vars

\* C29: compute_mask applies the trial-length filter and the window-overlap
\* filter only when trials_df has the trial_start column (and min_len and
\* max_len are given); when the column is absent the two filters are
\* bypassed and a mask is still returned, that of the other criteria
C29_BypassedWithoutTrialStart ==
    util.done =>
        IF "trial_start" \in util.columns
        THEN /\ util.error = None
             /\ util.mask = [i \in MaskTrials |->
                               /\ KeepTrial(util, i)
                               /\ FiltersEntered(util) =>
                                     LengthFilter(util, i) /\ OverlapFilter(util, i)]
        ELSE /\ util.error = None
             /\ util.mask = [i \in MaskTrials |-> KeepTrial(util, i)]

(***************************************************************************)
(* check_settings (prior_localization/functions/utils.py).  The inputs are *)
(* the values of params after the defaults have been updated with the      *)
(* settings of the caller (lines 159-166).                                 *)
(***************************************************************************)
\* lines 116-134
target_options_singlebin == {"prior", "choice", "feedback", "signcont"}
target_options_multibin ==
    {"wheel-vel", "wheel-speed", "pupil", "l-paw-pos", "l-paw-vel", "l-paw-speed",
     "l-whisker-me", "r-paw-pos", "r-paw-vel", "r-paw-speed", "r-whisker-me"}

\* lines 137-141: the keys of behavior_model_options
behavior_model_options == {"ActionKernel", "optimal_Bayesian", "oracle"}

\* lines 144-149
align_event_options ==
    {"firstMovement_times", "goCue_times", "stimOn_times", "feedback_times"}

\* lines 152-157: the keys of decoder_options
decoder_options == {"linear", "lasso", "ridge", "logistic"}

\* the names bound in check_settings when line 192 is evaluated: its
\* argument, its imports and its locals; kwargs is none of them, and the
\* module defines no global of that name
NamesInScope ==
    {"settings", "ActionKernel", "optimal_Bayesian", "target_options_singlebin",
     "target_options_multibin", "behavior_model_options", "align_event_options",
     "decoder_options", "settings_file", "params"}

SettingsInit ==
    /\ \E target \in {"signcont", "prior", "wheel-speed", "licking"},
          model \in {"ActionKernel", "oracle", "logistic"},
          align_time \in {"stimOn_times", "trial_end"},
          estimator \in {"ridge", "logistic", "svm"},
          single_region \in BOOLEAN, merge_probes \in BOOLEAN,
          compute_neurometric \in BOOLEAN,
          border_quantiles_neurometric \in {<<>>, <<3>>},
          date \in {"None", "today", "2023-01-01"} :
        util = [fn |-> "check_settings",
                params |-> [target |-> target, model |-> model,
                            align_time |-> align_time, estimator |-> estimator,
                            single_region |-> single_region,
                            merge_probes |-> merge_probes,
                            compute_neurometric |-> compute_neurometric,
                            border_quantiles_neurometric |->
                                border_quantiles_neurometric,
                            balanced_continuous_target |-> TRUE,
                            hyperparam_grid |-> {"C", "alpha"},
                            n_pseudo |-> 4, n_pseudo_per_job |-> 2,
                            date |-> date],
                done |-> FALSE, error |-> None, returned |-> <<>>]
    /\ tasks = None
    /\ args = MakeArgs("decode_cv", 2, 1, FALSE, 0, "Ridge", <<1>>, FALSE, 2,
                       FALSE, TRUE, 0, FALSE, FALSE, FALSE, FALSE)
    /\ rng = 0
    /\ call = 1
    /\ first = None
    /\ Fresh(args)

\* lines 168-219: the exception that check_settings raises, or None; conditions
\* are evaluated in order and an "and" stops at its first false operand
SettingsError(params) ==
    IF params.target \notin target_options_singlebin \cup target_options_multibin
    THEN "NotImplementedError"
    ELSE IF params.model \notin behavior_model_options
    THEN "NotImplementedError"
    ELSE IF params.align_time \notin align_event_options
    THEN "NotImplementedError"
    ELSE IF ~params.single_region /\ ~params.merge_probes
    THEN "ValueError"
    ELSE IF params.compute_neurometric /\ "kwargs" \notin NamesInScope
    THEN \* line 192: kwargs["target"] is evaluated, the name is not defined
         "NameError"
    ELSE IF params.compute_neurometric /\ params.target # "signcont"
    THEN "ValueError"
    ELSE IF Len(params.border_quantiles_neurometric) = 0 /\ params.model # "oracle"
    THEN "ValueError"
    ELSE IF Len(params.border_quantiles_neurometric) # 0 /\ params.model = "oracle"
    THEN "ValueError"
    ELSE IF params.model = "logistic" /\ params.balanced_continuous_target
    THEN "ValueError"
    ELSE IF params.estimator \notin decoder_options
    THEN \* line 219, after the grid has been looked up under "alpha"
         "KeyError"
    ELSE None

\* lines 212-236: the settings returned
CheckedSettings(params) ==
    [target |-> params.target,
     model |-> params.model,
     align_time |-> params.align_time,
     align_event |-> params.align_time,
     estimator |-> params.estimator,
     hyperparam_grid |-> IF params.estimator = "logistic" THEN {"C"} ELSE {"alpha"},
     n_jobs_per_session |-> params.n_pseudo \div params.n_pseudo_per_job,
     date |-> IF params.date \in {"None", "today"} THEN "date.today()"
              ELSE params.date,
     today |-> IF params.date \in {"None", "today"} THEN "date.today()"
               ELSE params.date,
     compute_neurometric |-> params.compute_neurometric]

\* check_settings(settings)
check_settings ==
    /\ util.fn = "check_settings"
    /\ ~util.done
    /\ LET e == SettingsError(util.params)
       IN  IF e # None
           THEN util' = [util EXCEPT !.done = TRUE, !.error = e]
           ELSE util' = [util EXCEPT !.done = TRUE,
                                     !.returned = <<CheckedSettings(util.params)>>]
    /\ UNCHANGED <<tasks, callvars>>

SettingsNext == check_settings

SettingsSpec == SettingsInit /\ [][SettingsNext]_vars

\* settings that are valid in everything but compute_neurometric and target
OtherOptionsValid(params) ==
    /\ params.target \in target_options_singlebin \cup target_options_multibin
    /\ params.model \in behavior_model_options
    /\ params.align_time \in align_event_options
    /\ params.estimator \in decoder_options
    /\ params.single_region \/ params.merge_probes
    /\ (Len(params.border_quantiles_neurometric) = 0) <=> (params.model = "oracle")

\* C30: with compute_neurometric enabled and all other options valid,
\* check_settings raises ValueError when the target is not signcont and
\* returns the checked settings when the target is signcont
C30_NeurometricNeedsSigncont ==
    (util.done /\ util.params.compute_neurometric /\ OtherOptionsValid(util.params)) =>
        IF util.params.target # "signcont"
        THEN util.error = "ValueError"
        ELSE util.error = None /\ util.returned = <<CheckedSettings(util.params)>>

==========================================================================
